---- MODULE Spec2Model ----
(***************************************************************************)
(* The cache stack of In-Memoria: LRUCache (src/utils/lru-cache.ts),       *)
(* QueryCache (src/storage/query-cache.ts) and StatementCache.  One        *)
(* LRUCache instance is modelled; `layer` says who drives it: its owner    *)
(* directly ("lru"), a QueryCache called synchronously ("qc"), a           *)
(* QueryCache serving getOrCompute callers ("async"), or a StatementCache  *)
(* ("sc").                                                                 *)
(***************************************************************************)
EXTENDS Integers, Sequences, FiniteSets, TLC

\* ------------------------------------------------------------------ bounds
MaxSize == 2      \* largest capacity a cache is constructed with
MaxTime == 2      \* the clock Date.now() runs over 0..MaxTime
MaxCount == 1     \* LRUCache used directly: hits + misses <= MaxCount
MaxLookups == 2   \* QueryCache: hits + misses <= MaxLookups
MaxEvictions == 1 \* QueryCache: evictions <= MaxEvictions
MaxPrepares == 5  \* StatementCache: at most MaxPrepares prepare calls
MaxCalls == 2     \* LearningPipeline: execute() calls that may be in flight

\* ------------------------------------------------------------------ inputs
\* A string is the sequence of its characters.
Keys == { <<"p">>, <<"p", "a">>, <<"q", "p">> }
Prefixes == { << >>, <<"p">>, <<"p", "a">> }
\* JavaScript's undefined: what get returns for an absent key, and a value a
\* caller may store.
Undefined == "undefined"
Values == { "v1", "v2" }
\* what a caller may hand to QueryCache.set or return from a computeFn
QcValues == { "v1", Undefined }
ComputedValues == Values \cup { Undefined }
Errors == { "E1", "E2" }
\* Configured maxAge / ttlMs; 0 stands for "absent" (both are tested falsy).
AgeChoices == { 0, 1 }
TaskIds == { 1, 2 }
\* expiresAt of an entry stored with ttlMs = 0
Infinity == "Infinity"
\* SQL texts handed to StatementCache.prepare
SqlTexts == { <<"a">>, <<" ", "a">>, <<"a", " ", "b">>, <<"a", "\n", " ", "b">>,
              <<"b", "\t">>, <<"'", " ", "'">>, <<"'", " ", " ", "'">> }
Whitespace == { " ", "\n", "\t" }

\* generateCacheKey inputs: query names, parameter names and JavaScript values
\* (a type tag and the characters of the value)
QueryNames == { <<"q">>, <<"r">> }
ParamNames == { <<"a">>, <<"b">> }
NaN == [ type |-> "number", v |-> <<"N", "a", "N">> ]
ParamValues ==
  { [ type |-> "number", v |-> <<"1">> ], NaN,
    [ type |-> "string", v |-> <<"1">> ],
    [ type |-> "null", v |-> << >> ],
    [ type |-> "undefined", v |-> << >> ] }
Properties == [ name : ParamNames, value : ParamValues ]
\* params objects: their properties in insertion order, no name twice
ParamObjects ==
  { << >> } \cup { << x >> : x \in Properties }
  \cup { o \in { << x, y >> : x \in Properties, y \in Properties } :
           o[1].name # o[2].name }

VARIABLES
  layer,            \* who drives the LRUCache instance
  maxSize,          \* LRUCache.maxSize
  maxAge,           \* LRUCache.maxAge (0: not configured)
  cache,            \* LRUCache.cache: the Map in insertion order, oldest first
  hits,             \* LRUCache.hits
  misses,           \* LRUCache.misses
  now,              \* Date.now()
  ttlMs,            \* QueryCache.ttlMs
  refreshOnAccess,  \* QueryCache.refreshOnAccess
  qcHits,           \* QueryCache.hits
  qcMisses,         \* QueryCache.misses
  expirations,      \* QueryCache.expirations
  evictions,        \* QueryCache.evictions
  tasks,            \* per task id, the key of its getOrCompute call suspended
                    \* at the await (NoKey: none)
  scHits,           \* StatementCache.hits
  scMisses,         \* StatementCache.misses
  prepareCalls,     \* number of db.prepare calls made so far
  lastCall,         \* the call that produced this state, and what it returned
  recency,          \* history: stored keys by their last touch, oldest first
  state,            \* LearningPipeline.state
  currentStage,     \* LearningPipeline.currentStage
  failedStage,      \* LearningPipeline.failedStage
  cancelled,        \* LearningPipeline.cancelled
  calls             \* per execute() call: where it stands, the index of the
                    \* stage it reached, the handlers it invoked, whether
                    \* cancel() was called while it was in progress, and the
                    \* error it rejected with

vars == << layer, maxSize, maxAge, cache, hits, misses, now, ttlMs,
           refreshOnAccess, qcHits, qcMisses, expirations, evictions, tasks,
           scHits, scMisses, prepareCalls, lastCall, recency,
           state, currentStage, failedStage, cancelled, calls >>

config == << layer, maxSize, maxAge >>
qcConfig == << ttlMs, refreshOnAccess >>
qcVars == << qcConfig, qcHits, qcMisses, expirations, evictions, tasks >>
scVars == << scHits, scMisses, prepareCalls >>
plVars == << state, currentStage, failedStage, cancelled, calls >>

\* ----------------------------------------------------------------- helpers
None == "none"
\* the key field of a call that takes no key
NoKey == << >>

\* Map.has / Map.get: position of key in the insertion order, 0 if absent
IndexOf(c, key) ==
  IF \E i \in 1..Len(c) : c[i].key = key
  THEN CHOOSE i \in 1..Len(c) : c[i].key = key
  ELSE 0

MapHas(c, key) == IndexOf(c, key) # 0

\* Map.delete
MapDelete(c, key) == SelectSeq(c, LAMBDA e : e.key # key)

KeysOf(c) == { c[i].key : i \in 1..Len(c) }

KeySeq(c) == [ i \in 1..Len(c) |-> c[i].key ]

startsWith_includes(key, prefix) ==
  \E i \in 1..(Len(key) + 1) :
    /\ i + Len(prefix) - 1 <= Len(key)
    /\ SubSeq(key, i, i + Len(prefix) - 1) = prefix

\* String.prototype.startsWith
startsWith(key, prefix) ==
  /\ Len(prefix) <= Len(key)
  /\ SubSeq(key, 1, Len(prefix)) = prefix

\* The object an LRUCache method works on and leaves behind.
Self == [ cache |-> cache, hits |-> hits, misses |-> misses ]

\* ---------------------------------------------------------------- LRUCache
isExpired_inclusive(entry) ==
  IF maxAge = 0 THEN FALSE ELSE now - entry.timestamp >= maxAge

isExpired_noGuard(entry) == now - entry.timestamp > maxAge

LRUCache_new_allowZero(options) ==
  IF options.maxSize < 0
  THEN [ status |-> "threw", error |-> "maxSize must be at least 1" ]
  ELSE [ status |-> "returned", error |-> None ]

\* LRUCache constructor: whether it throws, and with what message
LRUCache_new(options) ==
  IF options.maxSize < 1
  THEN [ status |-> "threw", error |-> "maxSize must be at least 1" ]
  ELSE [ status |-> "returned", error |-> None ]

\* LRUCache.isExpired
isExpired(entry) ==
  IF maxAge = 0 THEN FALSE ELSE now - entry.timestamp > maxAge

LRUCache_get_noPromote(self, key) ==
  LET i == IndexOf(self.cache, key) IN
  IF i = 0
  THEN [ self |-> [ self EXCEPT !.misses = @ + 1 ],
         found |-> FALSE, ret |-> Undefined ]
  ELSE IF isExpired(self.cache[i])
  THEN [ self |-> [ self EXCEPT !.cache = MapDelete(@, key), !.misses = @ + 1 ],
         found |-> FALSE, ret |-> Undefined ]
  ELSE [ self |-> [ self EXCEPT !.hits = @ + 1 ],
         found |-> TRUE, ret |-> self.cache[i].value ]

LRUCache_get_refresh(self, key) ==
  LET i == IndexOf(self.cache, key) IN
  IF i = 0
  THEN [ self |-> [ self EXCEPT !.misses = @ + 1 ],
         found |-> FALSE, ret |-> Undefined ]
  ELSE IF isExpired(self.cache[i])
  THEN [ self |-> [ self EXCEPT !.cache = MapDelete(@, key), !.misses = @ + 1 ],
         found |-> FALSE, ret |-> Undefined ]
  ELSE [ self |-> [ self EXCEPT
                      !.cache = Append(MapDelete(@, key),
                                       [ self.cache[i] EXCEPT !.timestamp = now ]),
                      !.hits = @ + 1 ],
         found |-> TRUE, ret |-> self.cache[i].value ]

\* LRUCache.get: the object afterwards and the returned value; found tells a
\* returned entry from the undefined returned for an absent or aged-out key
LRUCache_get(self, key) ==
  LET i == IndexOf(self.cache, key) IN
  IF i = 0
  THEN [ self |-> [ self EXCEPT !.misses = @ + 1 ],
         found |-> FALSE, ret |-> Undefined ]
  ELSE IF isExpired(self.cache[i])
  THEN [ self |-> [ self EXCEPT !.cache = MapDelete(@, key), !.misses = @ + 1 ],
         found |-> FALSE, ret |-> Undefined ]
  ELSE [ self |-> [ self EXCEPT !.cache = Append(MapDelete(@, key), self.cache[i]),
                                !.hits = @ + 1 ],
         found |-> TRUE, ret |-> self.cache[i].value ]

AtCapacity_offByOne(c) == Len(c) > maxSize

\* The capacity test of LRUCache.set
AtCapacity(c) == Len(c) >= maxSize

onEvictCalls_newKey(key, firstKey, firstEntry) == << << key, firstEntry.value >> >>

\* The onEvict calls LRUCache.set makes for the entry it evicts
onEvictCalls(key, firstKey, firstEntry) == << << firstKey, firstEntry.value >> >>

LRUCache_set_evictFirst(self, key, value) ==
  LET entry == [ key |-> key, value |-> value, timestamp |-> now ] IN
  IF AtCapacity(self.cache)
  THEN LET firstKey == self.cache[1].key
           firstEntry == self.cache[1]
       IN [ self |-> [ self EXCEPT
                         !.cache = Append(MapDelete(MapDelete(@, firstKey), key), entry) ],
            onEvict |-> onEvictCalls(key, firstKey, firstEntry) ]
  ELSE [ self |-> [ self EXCEPT !.cache = Append(MapDelete(@, key), entry) ],
         onEvict |-> << >> ]

\* LRUCache.set: the object afterwards and the onEvict calls made, in order
LRUCache_set(self, key, value) ==
  LET entry == [ key |-> key, value |-> value, timestamp |-> now ] IN
  IF MapHas(self.cache, key)
  THEN [ self |-> [ self EXCEPT !.cache = Append(MapDelete(@, key), entry) ],
         onEvict |-> << >> ]
  ELSE IF AtCapacity(self.cache)
  THEN LET firstKey == self.cache[1].key
           firstEntry == self.cache[1]
       IN [ self |-> [ self EXCEPT !.cache = Append(MapDelete(@, firstKey), entry) ],
            onEvict |-> onEvictCalls(key, firstKey, firstEntry) ]
  ELSE [ self |-> [ self EXCEPT !.cache = Append(@, entry) ],
         onEvict |-> << >> ]

\* Map.prototype.set: a stored key keeps its place, a new key goes last
MapSet(c, key, entry) ==
  IF MapHas(c, key)
  THEN [ c EXCEPT ![IndexOf(c, key)] = entry ]
  ELSE Append(c, entry)

RECURSIVE LRUCache_set_reentrant_insertFirst(_, _, _, _)
LRUCache_set_reentrant_insertFirst(self, key, value, callback) ==
  LET entry == [ key |-> key, value |-> value, timestamp |-> now ] IN
  IF MapHas(self.cache, key)
  THEN [ self |-> [ self EXCEPT !.cache = Append(MapDelete(@, key), entry) ],
         onEvict |-> << >> ]
  ELSE IF AtCapacity(self.cache)
  THEN LET firstKey == self.cache[1].key
           firstEntry == self.cache[1]
           removed == [ self EXCEPT !.cache = Append(MapDelete(@, firstKey), entry) ]
           call == [ key |-> firstKey, value |-> firstEntry.value,
                     size |-> Len(removed.cache),
                     hasKey |-> MapHas(removed.cache, key),
                     hasVictim |-> MapHas(removed.cache, firstKey),
                     did |-> callback ]
           inner == IF callback = << >>
                    THEN [ self |-> removed, onEvict |-> << >> ]
                    ELSE LRUCache_set_reentrant_insertFirst(
                           removed, callback[1].key, callback[1].value, callback)
       IN [ self |-> inner.self, onEvict |-> << call >> \o inner.onEvict ]
  ELSE [ self |-> [ self EXCEPT !.cache = MapSet(@, key, entry) ],
         onEvict |-> << >> ]

RECURSIVE LRUCache_set_reentrant(_, _, _, _)
\* LRUCache.set on a cache whose onEvict callback may call back into the cache.
\* callback is what the callback does: nothing to the cache (<< >>), or one
\* this.set(callback[1].key, callback[1].value).  Each onEvict call is
\* reported with what the cache looked like when it was made: its size, and
\* whether the key being set and the evicted key were stored.
LRUCache_set_reentrant(self, key, value, callback) ==
  LET entry == [ key |-> key, value |-> value, timestamp |-> now ] IN
  IF MapHas(self.cache, key)
  THEN [ self |-> [ self EXCEPT !.cache = Append(MapDelete(@, key), entry) ],
         onEvict |-> << >> ]
  ELSE IF AtCapacity(self.cache)
  THEN LET firstKey == self.cache[1].key
           firstEntry == self.cache[1]
           removed == [ self EXCEPT !.cache = MapDelete(@, firstKey) ]
           call == [ key |-> firstKey, value |-> firstEntry.value,
                     size |-> Len(removed.cache),
                     hasKey |-> MapHas(removed.cache, key),
                     hasVictim |-> MapHas(removed.cache, firstKey),
                     did |-> callback ]
           inner == IF callback = << >>
                    THEN [ self |-> removed, onEvict |-> << >> ]
                    ELSE LRUCache_set_reentrant(
                           removed, callback[1].key, callback[1].value, callback)
       IN [ self |-> [ inner.self EXCEPT !.cache = MapSet(@, key, entry) ],
            onEvict |-> << call >> \o inner.onEvict ]
  ELSE [ self |-> [ self EXCEPT !.cache = MapSet(@, key, entry) ],
         onEvict |-> << >> ]

LRUCache_has_promote(self, key) ==
  LET i == IndexOf(self.cache, key) IN
  IF i = 0
  THEN [ self |-> self, ret |-> FALSE ]
  ELSE IF isExpired(self.cache[i])
  THEN [ self |-> [ self EXCEPT !.cache = MapDelete(@, key) ], ret |-> FALSE ]
  ELSE [ self |-> [ self EXCEPT !.cache = Append(MapDelete(@, key), self.cache[i]) ],
         ret |-> TRUE ]

LRUCache_has_counting(self, key) ==
  LET i == IndexOf(self.cache, key) IN
  IF i = 0
  THEN [ self |-> [ self EXCEPT !.misses = @ + 1 ], ret |-> FALSE ]
  ELSE IF isExpired(self.cache[i])
  THEN [ self |-> [ self EXCEPT !.cache = MapDelete(@, key), !.misses = @ + 1 ],
         ret |-> FALSE ]
  ELSE [ self |-> [ self EXCEPT !.hits = @ + 1 ], ret |-> TRUE ]

\* LRUCache.has
LRUCache_has(self, key) ==
  LET i == IndexOf(self.cache, key) IN
  IF i = 0
  THEN [ self |-> self, ret |-> FALSE ]
  ELSE IF isExpired(self.cache[i])
  THEN [ self |-> [ self EXCEPT !.cache = MapDelete(@, key) ], ret |-> FALSE ]
  ELSE [ self |-> self, ret |-> TRUE ]

\* LRUCache.delete
LRUCache_delete(self, key) ==
  [ self |-> [ self EXCEPT !.cache = MapDelete(@, key) ],
    ret |-> MapHas(self.cache, key) ]

\* LRUCache.clear
LRUCache_clear(self) ==
  [ cache |-> << >>, hits |-> 0, misses |-> 0 ]

LRUCache_forEach_newestFirst(self) ==
  [ i \in 1..Len(self.cache) |->
      << self.cache[Len(self.cache) + 1 - i].value,
         self.cache[Len(self.cache) + 1 - i].key >> ]

\* LRUCache.forEach: the (value, key) pairs handed to the callback, in order
LRUCache_forEach(self) ==
  [ i \in 1..Len(self.cache) |-> << self.cache[i].value, self.cache[i].key >> ]

LRUCache_cleanExpired_inclusive(self) ==
  IF maxAge = 0
  THEN [ self |-> self, ret |-> 0 ]
  ELSE LET kept == SelectSeq(self.cache, LAMBDA e : ~(now - e.timestamp >= maxAge))
       IN [ self |-> [ self EXCEPT !.cache = kept ],
            ret |-> Len(self.cache) - Len(kept) ]

\* LRUCache.cleanExpired
LRUCache_cleanExpired(self) ==
  IF maxAge = 0
  THEN [ self |-> self, ret |-> 0 ]
  ELSE LET kept == SelectSeq(self.cache, LAMBDA e : ~(now - e.timestamp > maxAge))
       IN [ self |-> [ self EXCEPT !.cache = kept ],
            ret |-> Len(self.cache) - Len(kept) ]

\* hits / total as the fraction << hits, total >>; 0 is << 0, 1 >>
hitRate(h, total) == IF total > 0 THEN << h, total >> ELSE << 0, 1 >>

\* LRUCache.getStats
LRUCache_getStats(self) ==
  LET total == self.hits + self.misses
  IN [ hits |-> self.hits, misses |-> self.misses, size |-> Len(self.cache),
       hitRate |-> hitRate(self.hits, total) ]

\* ----------------------------------------------------------------- history
\* A touch (a set, or a get that finds the key) makes the key the most recent.
Touch(r, key) == Append(SelectSeq(r, LAMBDA k : k # key), key)

\* Only stored keys are ranked.
Stored(r, c) == SelectSeq(r, LAMBDA k : k \in KeysOf(c))

\* What a call reports: its name, key, argument and return value, the onEvict
\* calls it made, and whether the key was stored / the cache full when it
\* began.  The last four fields are filled in by getOrCompute.
Call(op, key, val, ret, onEvict) ==
  [ op |-> op, key |-> key, val |-> val, ret |-> ret, onEvict |-> onEvict,
    stored |-> MapHas(cache, key),
    full |-> Len(cache) = maxSize,
    status |-> None, invoked |-> FALSE, retry |-> FALSE, missed |-> FALSE ]

Install(self) ==
  /\ cache' = self.cache
  /\ hits' = self.hits
  /\ misses' = self.misses

\* -------------------------------------------------- actions: LRUCache direct
Set(key, value) ==
  /\ layer = "lru"
  /\ LET r == LRUCache_set(Self, key, value) IN
     /\ Install(r.self)
     /\ lastCall' = Call("set", key, value, None, r.onEvict)
     /\ recency' = Stored(Touch(recency, key), r.self.cache)
  /\ UNCHANGED << config, now, qcVars, scVars, plVars >>

Get(key) ==
  /\ layer = "lru"
  /\ hits + misses < MaxCount
  /\ LET r == LRUCache_get(Self, key) IN
     /\ Install(r.self)
     /\ lastCall' = Call("get", key, None, r.ret, << >>)
     /\ recency' = Stored(IF r.found THEN Touch(recency, key) ELSE recency,
                          r.self.cache)
  /\ UNCHANGED << config, now, qcVars, scVars, plVars >>

Has(key) ==
  /\ layer = "lru"
  /\ LET r == LRUCache_has(Self, key) IN
     /\ Install(r.self)
     /\ lastCall' = Call("has", key, None, r.ret, << >>)
     /\ recency' = Stored(recency, r.self.cache)
  /\ UNCHANGED << config, now, qcVars, scVars, plVars >>

Delete(key) ==
  /\ layer \in { "lru", "evict" }
  /\ LET r == LRUCache_delete(Self, key) IN
     /\ Install(r.self)
     /\ lastCall' = Call("delete", key, None, r.ret, << >>)
     /\ recency' = Stored(recency, r.self.cache)
  /\ UNCHANGED << config, now, qcVars, scVars, plVars >>

Clear ==
  /\ layer = "lru"
  /\ LET s == LRUCache_clear(Self) IN
     /\ Install(s)
     /\ lastCall' = Call("clear", NoKey, None, None, << >>)
     /\ recency' = Stored(recency, s.cache)
  /\ UNCHANGED << config, now, qcVars, scVars, plVars >>

ForEach ==
  /\ layer = "lru"
  /\ lastCall' = Call("forEach", NoKey, None, LRUCache_forEach(Self), << >>)
  /\ UNCHANGED << config, cache, hits, misses, now, recency, qcVars, scVars, plVars >>

CleanExpired ==
  /\ layer = "lru"
  /\ LET r == LRUCache_cleanExpired(Self) IN
     /\ Install(r.self)
     /\ lastCall' = Call("cleanExpired", NoKey, None, r.ret, << >>)
     /\ recency' = Stored(recency, r.self.cache)
  /\ UNCHANGED << config, now, qcVars, scVars, plVars >>

\* set on a cache constructed with an onEvict callback that does as callback says
SetReentrant(key, value, callback) ==
  /\ layer = "evict"
  /\ LET r == LRUCache_set_reentrant(Self, key, value, callback)
         reentered == r.onEvict # << >> /\ callback # << >>
     IN
     /\ Install(r.self)
     /\ lastCall' = Call("set", key, value, None, r.onEvict)
     /\ recency' = Stored(Touch(IF reentered
                                THEN Touch(recency, callback[1].key)
                                ELSE recency, key),
                          r.self.cache)
  /\ UNCHANGED << config, now, qcVars, scVars, plVars >>

GetStats_counting ==
  /\ layer = "lru"
  /\ hits + misses < MaxCount
  /\ lastCall' = Call("getStats", NoKey, None, LRUCache_getStats(Self), << >>)
  /\ hits' = hits + 1
  /\ UNCHANGED << config, cache, misses, now, recency, qcVars, scVars, plVars >>

GetStats ==
  /\ layer = "lru"
  /\ lastCall' = Call("getStats", NoKey, None, LRUCache_getStats(Self), << >>)
  /\ UNCHANGED << config, cache, hits, misses, now, recency, qcVars, scVars, plVars >>

Tick_sweep ==
  /\ layer \in { "lru", "qc", "async" }
  /\ now < MaxTime
  /\ now' = now + 1
  /\ cache' = SelectSeq(cache, LAMBDA e : ~(maxAge > 0 /\ now + 1 - e.timestamp > maxAge))
  /\ lastCall' = Call("tick", NoKey, None, None, << >>)
  /\ recency' = Stored(recency, cache')
  /\ UNCHANGED << config, hits, misses, qcVars, scVars, plVars >>

\* Time passes between calls.
Tick ==
  /\ layer \in { "lru", "qc", "async" }
  /\ now < MaxTime
  /\ now' = now + 1
  /\ lastCall' = Call("tick", NoKey, None, None, << >>)
  /\ UNCHANGED << config, cache, hits, misses, recency, qcVars, scVars, plVars >>

\* -------------------------------------------------------------- QueryCache
\* The QueryCache object: its inner LRUCache and its own counters.
Qc == [ lru |-> Self, hits |-> qcHits, misses |-> qcMisses,
        expirations |-> expirations, evictions |-> evictions ]

ttlExpired_inclusive(entry) == ttlMs > 0 /\ now >= entry.expiresAt

\* The TTL test of QueryCache.get
ttlExpired(entry) == ttlMs > 0 /\ now > entry.expiresAt

refreshes_always == ttlMs > 0

\* The refresh test of QueryCache.get
refreshes == refreshOnAccess /\ ttlMs > 0

QueryCache_get_expiredUncounted(q, key) ==
  LET r == LRUCache_get(q.lru, key)
      entry == r.ret
  IN IF ~r.found
     THEN [ self |-> [ q EXCEPT !.lru = r.self, !.misses = @ + 1 ],
            found |-> r.found, ret |-> Undefined ]
     ELSE IF ttlExpired(entry)
     THEN [ self |-> [ q EXCEPT !.lru = LRUCache_delete(r.self, key).self,
                                !.expirations = @ + 1 ],
            found |-> r.found, ret |-> Undefined ]
     ELSE LET n == Len(r.self.cache)
              lru == IF refreshes
                     THEN [ r.self EXCEPT !.cache[n].value.expiresAt = now + ttlMs ]
                     ELSE r.self
          IN [ self |-> [ q EXCEPT !.lru = lru, !.hits = @ + 1 ],
               found |-> r.found, ret |-> entry.value ]

\* QueryCache.get. The inner cache stores entry objects, so !entry is true
\* exactly when the inner get found nothing.
QueryCache_get(q, key) ==
  LET r == LRUCache_get(q.lru, key)
      entry == r.ret
  IN IF ~r.found
     THEN [ self |-> [ q EXCEPT !.lru = r.self, !.misses = @ + 1 ],
            found |-> r.found, ret |-> Undefined ]
     ELSE IF ttlExpired(entry)
     THEN [ self |-> [ q EXCEPT !.lru = LRUCache_delete(r.self, key).self,
                                !.misses = @ + 1, !.expirations = @ + 1 ],
            found |-> r.found, ret |-> Undefined ]
     ELSE LET n == Len(r.self.cache)
              lru == IF refreshes
                     THEN [ r.self EXCEPT !.cache[n].value.expiresAt = now + ttlMs ]
                     ELSE r.self
          IN [ self |-> [ q EXCEPT !.lru = lru, !.hits = @ + 1 ],
               found |-> r.found, ret |-> entry.value ]

QueryCache_set_countsFull(q, key, value) ==
  LET entry == [ value |-> value,
                 expiresAt |-> IF ttlMs > 0 THEN now + ttlMs ELSE Infinity ]
      r == LRUCache_set(q.lru, key, entry)
  IN [ self |-> [ q EXCEPT !.lru = r.self,
                           !.evictions = @ + IF AtCapacity(q.lru.cache) THEN 1 ELSE 0 ],
       onEvict |-> r.onEvict ]

QueryCache_set_countsExpired(q, key, value) ==
  LET entry == [ value |-> value,
                 expiresAt |-> IF ttlMs > 0 THEN now + ttlMs ELSE Infinity ]
      r == LRUCache_set(q.lru, key, entry)
      aged == { i \in 1..Len(r.onEvict) : ttlExpired(r.onEvict[i][2]) }
  IN [ self |-> [ q EXCEPT !.lru = r.self,
                           !.evictions = @ + Len(r.onEvict) - Cardinality(aged),
                           !.expirations = @ + Cardinality(aged) ],
       onEvict |-> r.onEvict ]

\* QueryCache.set; the constructor's onEvict callback counts an eviction
QueryCache_set(q, key, value) ==
  LET entry == [ value |-> value,
                 expiresAt |-> IF ttlMs > 0 THEN now + ttlMs ELSE Infinity ]
      r == LRUCache_set(q.lru, key, entry)
  IN [ self |-> [ q EXCEPT !.lru = r.self, !.evictions = @ + Len(r.onEvict) ],
       onEvict |-> r.onEvict ]

\* QueryCache.getOrCompute up to its await: the lookup, whether computeFn is
\* invoked (the test cached !== undefined fails), and how the call stands:
\* resolved with the cached value, rejected with the error computeFn threw at
\* once (sync \in Errors), or pending on what computeFn handed back
QueryCache_getOrCompute(q, key, sync) ==
  LET g == QueryCache_get(q, key)
      invoke == ~(g.ret # Undefined)
  IN [ self |-> g.self, found |-> g.found, invoke |-> invoke,
       status |-> IF ~invoke THEN "resolved"
                  ELSE IF sync \in Errors THEN "rejected" ELSE "pending",
       ret |-> IF ~invoke THEN g.ret
               ELSE IF sync \in Errors THEN sync ELSE None ]

QueryCache_getOrCompute_resume_cacheFailure(q, key, outcome) ==
  LET w == QueryCache_set(q, key, outcome.v)
  IN [ self |-> w.self, onEvict |-> w.onEvict,
       status |-> IF outcome.ok THEN "resolved" ELSE "rejected",
       ret |-> outcome.v ]

QueryCache_getOrCompute_resume_keepFirst(q, key, outcome) ==
  IF outcome.ok
  THEN LET w == IF MapHas(q.lru.cache, key)
                THEN [ self |-> q, onEvict |-> << >> ]
                ELSE QueryCache_set(q, key, outcome.v)
       IN [ self |-> w.self, onEvict |-> w.onEvict,
            status |-> "resolved", ret |-> outcome.v ]
  ELSE [ self |-> q, onEvict |-> << >>, status |-> "rejected", ret |-> outcome.v ]

\* QueryCache.getOrCompute from its await on: computeFn's promise has settled
\* with outcome (a value, or an error the await rethrows)
QueryCache_getOrCompute_resume(q, key, outcome) ==
  IF outcome.ok
  THEN LET w == QueryCache_set(q, key, outcome.v)
       IN [ self |-> w.self, onEvict |-> w.onEvict,
            status |-> "resolved", ret |-> outcome.v ]
  ELSE [ self |-> q, onEvict |-> << >>, status |-> "rejected", ret |-> outcome.v ]

QueryCache_clear_keepEvictions(q) ==
  [ lru |-> LRUCache_clear(q.lru), hits |-> 0, misses |-> 0,
    expirations |-> 0, evictions |-> q.evictions ]

\* QueryCache.clear
QueryCache_clear(q) ==
  [ lru |-> LRUCache_clear(q.lru), hits |-> 0, misses |-> 0,
    expirations |-> 0, evictions |-> 0 ]

\* The keys QueryCache.invalidateByPrefix collects, in forEach order
keysToDelete(q, prefix) ==
  LET visited == LRUCache_forEach(q.lru)
  IN SelectSeq([ i \in 1..Len(visited) |-> visited[i][2] ],
               LAMBDA k : startsWith(k, prefix))

RECURSIVE DeleteAll(_, _)
\* the delete loop of QueryCache.invalidateByPrefix
DeleteAll(lru, ks) ==
  IF ks = << >> THEN lru
  ELSE DeleteAll(LRUCache_delete(lru, Head(ks)).self, Tail(ks))

\* QueryCache.invalidateByPrefix
QueryCache_invalidateByPrefix(q, prefix) ==
  [ q EXCEPT !.lru = DeleteAll(q.lru, keysToDelete(q, prefix)) ]

QueryCache_getStats_innerRate(q) ==
  LET cacheStats == LRUCache_getStats(q.lru)
  IN [ hits |-> q.hits, misses |-> q.misses, size |-> cacheStats.size,
       hitRate |-> cacheStats.hitRate,
       expirations |-> q.expirations, evictions |-> q.evictions ]

\* QueryCache.getStats
QueryCache_getStats(q) ==
  LET total == q.hits + q.misses
      cacheStats == LRUCache_getStats(q.lru)
  IN [ hits |-> q.hits, misses |-> q.misses, size |-> cacheStats.size,
       hitRate |-> hitRate(q.hits, total),
       expirations |-> q.expirations, evictions |-> q.evictions ]

InstallQc(q) ==
  /\ Install(q.lru)
  /\ qcHits' = q.hits
  /\ qcMisses' = q.misses
  /\ expirations' = q.expirations
  /\ evictions' = q.evictions

\* What an onEvict callback may do to the cache that calls it
Callbacks == { << >> } \cup { << c >> : c \in [ key : Keys, value : Values ] }

\* A computeFn settles with a value or with an error.
Outcomes ==
  [ ok : { TRUE }, v : ComputedValues ] \cup [ ok : { FALSE }, v : Errors ]

QueryLayer == layer \in { "qc", "async" }

\* ------------------------------------------------------ actions: QueryCache
QcGet(key) ==
  /\ QueryLayer
  /\ qcHits + qcMisses < MaxLookups
  /\ LET r == QueryCache_get(Qc, key) IN
     /\ InstallQc(r.self)
     /\ lastCall' = Call("get", key, None, r.ret, << >>)
     /\ recency' = Stored(IF r.found THEN Touch(recency, key) ELSE recency,
                          r.self.lru.cache)
  /\ UNCHANGED << config, now, qcConfig, tasks, scVars, plVars >>

QcSet(key, value) ==
  /\ layer = "qc"
  /\ LET r == QueryCache_set(Qc, key, value) IN
     /\ r.self.evictions <= MaxEvictions
     /\ InstallQc(r.self)
     /\ lastCall' = Call("set", key, value, None, r.onEvict)
     /\ recency' = Stored(Touch(recency, key), r.self.lru.cache)
  /\ UNCHANGED << config, now, qcConfig, tasks, scVars, plVars >>

QcClear ==
  /\ layer = "qc"
  /\ LET q == QueryCache_clear(Qc) IN
     /\ InstallQc(q)
     /\ lastCall' = Call("clear", NoKey, None, None, << >>)
     /\ recency' = Stored(recency, q.lru.cache)
  /\ UNCHANGED << config, now, qcConfig, tasks, scVars, plVars >>

QcGetStats ==
  /\ layer = "qc"
  /\ lastCall' = Call("getStats", NoKey, None, QueryCache_getStats(Qc), << >>)
  /\ UNCHANGED << config, cache, hits, misses, now, recency, qcVars, scVars, plVars >>

\* invalidateByPrefix is synchronous: it runs to completion in one step.
InvalidateByPrefix(prefix) ==
  /\ QueryLayer
  /\ LET q == QueryCache_invalidateByPrefix(Qc, prefix) IN
     /\ InstallQc(q)
     /\ lastCall' = Call("invalidateByPrefix", prefix, None, None, << >>)
     /\ recency' = Stored(recency, q.lru.cache)
  /\ UNCHANGED << config, now, qcConfig, tasks, scVars, plVars >>

\* A caller starts getOrCompute(key, computeFn) as task t. The call runs to
\* its await: the lookup and, on a miss, computeFn(), which throws at once
\* (sync \in Errors) or hands back a value or promise still to be awaited.
\* retry: the call before this one was a getOrCompute of the same key that
\* rejected.
GetOrCompute(t, key, sync) ==
  /\ layer = "async"
  /\ tasks[t] = NoKey
  /\ qcHits + qcMisses < MaxLookups
  /\ LET c == QueryCache_getOrCompute(Qc, key, sync) IN
     /\ InstallQc(c.self)
     /\ tasks' = [ tasks EXCEPT ![t] = IF c.status = "pending" THEN key ELSE NoKey ]
     /\ lastCall' = [ Call("getOrCompute", key,
                           IF c.status = "rejected" THEN sync ELSE None,
                           c.ret, << >>)
                      EXCEPT !.status = c.status, !.invoked = c.invoke,
                             !.retry = /\ lastCall.status = "rejected"
                                       /\ lastCall.key = key,
                             !.missed = c.self.misses > qcMisses ]
     /\ recency' = Stored(IF c.found THEN Touch(recency, key) ELSE recency,
                          c.self.lru.cache)
  /\ UNCHANGED << config, now, qcConfig, scVars, plVars >>

\* The promise task t awaits settles and the task runs on from its await.
\* Continuations run in the order their promises settle (the microtask queue
\* is FIFO) and settling touches no cache state, so both are one step.
Resume(t, outcome) ==
  /\ layer = "async"
  /\ tasks[t] # NoKey
  /\ LET key == tasks[t]
         r == QueryCache_getOrCompute_resume(Qc, key, outcome)
     IN
     /\ r.self.evictions <= MaxEvictions
     /\ InstallQc(r.self)
     /\ tasks' = [ tasks EXCEPT ![t] = NoKey ]
     /\ lastCall' = [ Call("resume", key, outcome.v, r.ret, r.onEvict)
                      EXCEPT !.status = r.status ]
     /\ recency' = Stored(IF outcome.ok THEN Touch(recency, key) ELSE recency,
                          r.self.lru.cache)
  /\ UNCHANGED << config, now, qcConfig, scVars, plVars >>

\* ---------------------------------------------------------- StatementCache
RECURSIVE collapse(_)
\* sql.replace(/\s+/g, ' ')
collapse(sql) ==
  IF sql = << >> THEN << >>
  ELSE IF Head(sql) \in Whitespace
  THEN LET rest == collapse(Tail(sql))
       IN IF rest # << >> /\ Head(rest) = " " THEN rest ELSE << " " >> \o rest
  ELSE << Head(sql) >> \o collapse(Tail(sql))

RECURSIVE trimStart(_)
trimStart(s) ==
  IF s # << >> /\ Head(s) \in Whitespace THEN trimStart(Tail(s)) ELSE s

RECURSIVE trimEnd(_)
trimEnd(s) ==
  IF s # << >> /\ s[Len(s)] \in Whitespace
  THEN trimEnd(SubSeq(s, 1, Len(s) - 1)) ELSE s

\* String.prototype.trim
trim(s) == trimEnd(trimStart(s))

normalizeSQL_noTrim(sql) == collapse(sql)

\* normalizeSQL
normalizeSQL(sql) == trim(collapse(sql))

\* The StatementCache object
Sc == [ lru |-> Self, hits |-> scHits, misses |-> scMisses ]

StatementCache_prepare_cachesFailure(s, sql, ok, stmt) ==
  LET normalizedSQL == normalizeSQL(sql)
      r == LRUCache_get(s.lru, normalizedSQL)
  IN IF r.found
     THEN [ self |-> [ s EXCEPT !.lru = r.self, !.hits = @ + 1 ],
            status |-> "returned", ret |-> r.ret, dbCalls |-> 0 ]
     ELSE [ self |-> [ s EXCEPT !.lru = LRUCache_set(r.self, normalizedSQL, stmt).self,
                                !.misses = @ + 1 ],
            status |-> IF ok THEN "returned" ELSE "threw",
            ret |-> IF ok THEN stmt ELSE None, dbCalls |-> 1 ]

\* StatementCache.prepare; ok: db.prepare returns a statement (it throws
\* otherwise), stmt: the Statement object it returns
StatementCache_prepare(s, sql, ok, stmt) ==
  LET normalizedSQL == normalizeSQL(sql)
      r == LRUCache_get(s.lru, normalizedSQL)
  IN IF r.found
     THEN [ self |-> [ s EXCEPT !.lru = r.self, !.hits = @ + 1 ],
            status |-> "returned", ret |-> r.ret, dbCalls |-> 0 ]
     ELSE IF ~ok
     THEN [ self |-> [ s EXCEPT !.lru = r.self, !.misses = @ + 1 ],
            status |-> "threw", ret |-> None, dbCalls |-> 1 ]
     ELSE [ self |-> [ s EXCEPT !.lru = LRUCache_set(r.self, normalizedSQL, stmt).self,
                                !.misses = @ + 1 ],
            status |-> "returned", ret |-> stmt, dbCalls |-> 1 ]

\* StatementCache.clear
StatementCache_clear(s) ==
  [ lru |-> LRUCache_clear(s.lru), hits |-> 0, misses |-> 0 ]

\* StatementCache.getStats
StatementCache_getStats(s) ==
  LET total == s.hits + s.misses
      cacheStats == LRUCache_getStats(s.lru)
  IN [ hits |-> s.hits, misses |-> s.misses, size |-> cacheStats.size,
       hitRate |-> hitRate(s.hits, total) ]

InstallSc(s) ==
  /\ Install(s.lru)
  /\ scHits' = s.hits
  /\ scMisses' = s.misses

\* -------------------------------------------------- actions: StatementCache
\* Each db.prepare call that succeeds returns a new Statement object, told
\* apart by the number of the call.
Prepare(sql, ok) ==
  /\ layer = "sc"
  /\ prepareCalls < MaxPrepares
  /\ scHits + scMisses < MaxPrepares
  /\ LET stmt == [ sql |-> normalizeSQL(sql), id |-> prepareCalls + 1 ]
         r == StatementCache_prepare(Sc, sql, ok, stmt)
     IN
     /\ InstallSc(r.self)
     /\ prepareCalls' = prepareCalls + r.dbCalls
     /\ lastCall' = [ Call("prepare", normalizeSQL(sql), sql, r.ret, << >>)
                      EXCEPT !.status = r.status ]
     /\ recency' = Stored(IF MapHas(r.self.lru.cache, normalizeSQL(sql))
                          THEN Touch(recency, normalizeSQL(sql)) ELSE recency,
                          r.self.lru.cache)
  /\ UNCHANGED << config, now, qcVars, plVars >>

ScClear ==
  /\ layer = "sc"
  /\ LET s == StatementCache_clear(Sc) IN
     /\ InstallSc(s)
     /\ lastCall' = Call("clear", NoKey, None, None, << >>)
     /\ recency' = Stored(recency, s.lru.cache)
  /\ UNCHANGED << config, now, qcVars, prepareCalls, plVars >>

ScGetStats ==
  /\ layer = "sc"
  /\ lastCall' = Call("getStats", NoKey, None, StatementCache_getStats(Sc), << >>)
  /\ UNCHANGED << config, cache, hits, misses, now, recency, qcVars, scVars, plVars >>

\* -------------------------------------------------------- generateCacheKey
\* UTF-16 code unit of a character
charCode(c) == CASE c = "a" -> 97 [] c = "b" -> 98 [] OTHER -> 0

RECURSIVE lessThan(_, _)
\* the default comparison of Array.prototype.sort: by code units
lessThan(x, y) ==
  IF y = << >> THEN FALSE
  ELSE IF x = << >> THEN TRUE
  ELSE IF charCode(Head(x)) # charCode(Head(y))
  THEN charCode(Head(x)) < charCode(Head(y))
  ELSE lessThan(Tail(x), Tail(y))

sort_unsorted(keys) == keys

RECURSIVE sort(_)
\* Array.prototype.sort on names that are pairwise different
sort(keys) ==
  IF keys = << >> THEN << >>
  ELSE LET least == CHOOSE i \in 1..Len(keys) :
                      \A j \in 1..Len(keys) : j = i \/ lessThan(keys[i], keys[j])
       IN << keys[least] >>
          \o sort(SubSeq(keys, 1, least - 1) \o SubSeq(keys, least + 1, Len(keys)))

\* Object.keys: the property names in insertion order
ObjectKeys(params) == [ i \in 1..Len(params) |-> params[i].name ]

\* params[key]
PropertyOf(params, key) ==
  params[CHOOSE i \in 1..Len(params) : params[i].name = key].value

RECURSIVE escape(_)
\* JSON string escaping of the quote and the backslash
escape(str) ==
  IF str = << >> THEN << >>
  ELSE IF Head(str) \in { "\"", "\\" }
  THEN << "\\", Head(str) >> \o escape(Tail(str))
  ELSE << Head(str) >> \o escape(Tail(str))

\* JSON.stringify of a property value (undefined has no JSON text)
stringifyValue(value) ==
  CASE value.type = "number" ->
         IF value = NaN THEN <<"n", "u", "l", "l">> ELSE value.v
    [] value.type = "string" -> << "\"" >> \o escape(value.v) \o << "\"" >>
    [] OTHER -> <<"n", "u", "l", "l">>

RECURSIVE stringifyProperties(_, _)
\* the "name":value members, comma separated; undefined members are left out
stringifyProperties(obj, first) ==
  IF obj = << >> THEN << >>
  ELSE IF Head(obj).value.type = "undefined"
  THEN stringifyProperties(Tail(obj), first)
  ELSE (IF first THEN << >> ELSE << "," >>)
       \o << "\"" >> \o escape(Head(obj).name) \o << "\"", ":" >>
       \o stringifyValue(Head(obj).value)
       \o stringifyProperties(Tail(obj), FALSE)

\* JSON.stringify of an object of primitive values
JSONstringify(obj) == << "{" >> \o stringifyProperties(obj, TRUE) \o << "}" >>

\* generateCacheKey
generateCacheKey(queryName, params) ==
  LET sortedKeys == sort(ObjectKeys(params))
      sortedParams == [ i \in 1..Len(sortedKeys) |->
                          [ name |-> sortedKeys[i],
                            value |-> PropertyOf(params, sortedKeys[i]) ] ]
  IN queryName \o << ":" >> \o JSONstringify(sortedParams)

GenerateCacheKey(queryName, params) ==
  /\ layer = "key"
  /\ lastCall' = Call("generateCacheKey", NoKey,
                      [ queryName |-> queryName, params |-> params ],
                      generateCacheKey(queryName, params), << >>)
  /\ UNCHANGED << config, cache, hits, misses, now, recency, qcVars, scVars, plVars >>

\* -------------------------------------------------------- LearningPipeline
\* LearningPipeline.STAGES, by the stage field
STAGES == << "initialization", "file_discovery", "parsing", "concept_extraction",
             "pattern_detection", "indexing", "completion" >>

Null == "null"

CallIds == 1..MaxCalls

\* The LearningPipeline object.
Pl == [ state |-> state, currentStage |-> currentStage,
        failedStage |-> failedStage, cancelled |-> cancelled ]

\* The catch block of execute: the failure is recorded unless cancelled is set.
LearningPipeline_catch(p) ==
  IF ~p.cancelled
  THEN [ p EXCEPT !.state = "error", !.failedStage = p.currentStage ]
  ELSE p

\* execute from the top of loop iteration i up to its await, or, past the last
\* stage, up to its return.  throws: the handler throws at once instead of
\* handing back a promise.  pc tells how the call stands, invoked whether the
\* handler of stage i was called, error what the call rejects with.
LearningPipeline_iteration(p, i, throws) ==
  IF i > Len(STAGES)
  THEN [ self |-> [ p EXCEPT !.state = "completed", !.currentStage = Null ],
         pc |-> "resolved", invoked |-> FALSE, error |-> None ]
  ELSE IF p.cancelled
  THEN [ self |-> LearningPipeline_catch([ p EXCEPT !.state = "cancelled" ]),
         pc |-> "rejected", invoked |-> FALSE, error |-> "cancelled" ]
  ELSE LET q == [ p EXCEPT !.currentStage = STAGES[i] ] IN
       IF throws
       THEN [ self |-> LearningPipeline_catch(q),
              pc |-> "rejected", invoked |-> TRUE, error |-> "handler" ]
       ELSE [ self |-> q, pc |-> "awaiting", invoked |-> TRUE, error |-> None ]

\* LearningPipeline.execute up to its first await
LearningPipeline_execute(p, throws) ==
  LearningPipeline_iteration(
    [ state |-> "running", currentStage |-> Null, failedStage |-> Null,
      cancelled |-> FALSE ], 1, throws)

\* LearningPipeline.execute from the await of the handler of stage i on: the
\* handler's promise has settled (fulfilled or not), onProgress returns
\* (progress) or throws, and the loop runs on to the next await or to the end
LearningPipeline_execute_resume(p, i, fulfilled, progress, throws) ==
  IF ~fulfilled
  THEN [ self |-> LearningPipeline_catch(p),
         pc |-> "rejected", invoked |-> FALSE, error |-> "handler" ]
  ELSE IF ~progress
  THEN [ self |-> LearningPipeline_catch(p),
         pc |-> "rejected", invoked |-> FALSE, error |-> "onProgress" ]
  ELSE LearningPipeline_iteration(p, i + 1, throws)

\* LearningPipeline.cancel
LearningPipeline_cancel(p) == [ p EXCEPT !.cancelled = TRUE ]

\* LearningPipeline.reset
LearningPipeline_reset(p) ==
  [ state |-> "idle", currentStage |-> Null, failedStage |-> Null,
    cancelled |-> FALSE ]

InstallPl(p) ==
  /\ state' = p.state
  /\ currentStage' = p.currentStage
  /\ failedStage' = p.failedStage
  /\ cancelled' = p.cancelled

\* An execute() call that was never made.
NoCall == [ pc |-> "none", stage |-> 0, invoked |-> << >>,
            cancelSeen |-> FALSE, error |-> None ]

\* new LearningPipeline(handlers)
NewPipeline ==
  /\ state = "idle"
  /\ currentStage = Null
  /\ failedStage = Null
  /\ cancelled = FALSE
  /\ calls = [ c \in CallIds |-> NoCall ]

cacheVars == << config, cache, hits, misses, now, recency, qcVars, scVars >>

\* ------------------------------------------------ actions: LearningPipeline
\* A caller makes execute() call c; it runs to its first await.
Execute(c, throws) ==
  /\ layer = "pipeline"
  /\ calls[c].pc # "awaiting"
  /\ LET r == LearningPipeline_execute(Pl, throws) IN
     /\ InstallPl(r.self)
     /\ calls' = [ calls EXCEPT ![c] =
                     [ pc |-> r.pc, stage |-> 1, invoked |-> << STAGES[1] >>,
                       cancelSeen |-> FALSE, error |-> r.error ] ]
     /\ lastCall' = [ Call("execute", NoKey, c, r.error, << >>)
                      EXCEPT !.status = r.pc, !.invoked = r.invoked ]
  /\ UNCHANGED cacheVars

\* The promise call c awaits settles and the call runs on from its await.
Settle(c, fulfilled, progress, throws) ==
  /\ layer = "pipeline"
  /\ calls[c].pc = "awaiting"
  /\ LET i == calls[c].stage
         r == LearningPipeline_execute_resume(Pl, i, fulfilled, progress, throws)
     IN
     /\ InstallPl(r.self)
     /\ calls' = [ calls EXCEPT ![c] =
                     [ @ EXCEPT !.pc = r.pc,
                                !.stage = IF r.invoked THEN i + 1 ELSE i,
                                !.invoked = IF r.invoked
                                            THEN Append(@, STAGES[i + 1]) ELSE @,
                                !.error = r.error ] ]
     /\ lastCall' = [ Call("settle", NoKey, c, r.error, << >>)
                      EXCEPT !.status = r.pc, !.invoked = r.invoked ]
  /\ UNCHANGED cacheVars

Cancel ==
  /\ layer = "pipeline"
  /\ InstallPl(LearningPipeline_cancel(Pl))
  /\ calls' = [ c \in CallIds |->
                  IF calls[c].pc = "awaiting"
                  THEN [ calls[c] EXCEPT !.cancelSeen = TRUE ]
                  ELSE calls[c] ]
  /\ lastCall' = Call("cancel", NoKey, None, None, << >>)
  /\ UNCHANGED cacheVars

\* reset() is called between runs: no execute() call is in flight.
Reset ==
  /\ layer = "pipeline"
  /\ \A c \in CallIds : calls[c].pc # "awaiting"
  /\ InstallPl(LearningPipeline_reset(Pl))
  /\ lastCall' = Call("reset", NoKey, None, None, << >>)
  /\ UNCHANGED << cacheVars, calls >>

\* ------------------------------------------------------------ specification
\* LRUCache constructor: maxSize < 1 throws, so an instance has maxSize >= 1.
InitCommon ==
  /\ maxSize \in 1..MaxSize
  /\ cache = << >>
  /\ hits = 0
  /\ misses = 0
  /\ now = 0
  /\ qcHits = 0
  /\ qcMisses = 0
  /\ expirations = 0
  /\ evictions = 0
  /\ tasks = [ t \in TaskIds |-> NoKey ]
  /\ scHits = 0
  /\ scMisses = 0
  /\ prepareCalls = 0
  /\ lastCall = Call("new", NoKey, None, None, << >>)
  /\ recency = << >>
  /\ NewPipeline

InitLRU ==
  /\ layer = "lru"
  /\ maxAge \in AgeChoices
  /\ ttlMs = 0
  /\ refreshOnAccess = FALSE
  /\ InitCommon

NextLRU ==
  \/ \E key \in Keys, value \in Values : Set(key, value)
  \/ \E key \in Keys : Get(key)
  \/ \E key \in Keys : Has(key)
  \/ \E key \in Keys : Delete(key)
  \/ Clear
  \/ ForEach
  \/ CleanExpired
  \/ GetStats
  \/ Tick

SpecLRU == InitLRU /\ [][NextLRU]_vars

\* QueryCache constructor: an inner LRUCache without maxAge
InitQuery ==
  /\ maxAge = 0
  /\ ttlMs \in AgeChoices
  /\ refreshOnAccess \in BOOLEAN
  /\ InitCommon

InitQC == layer = "qc" /\ InitQuery

NextQC ==
  \/ \E key \in Keys : QcGet(key)
  \/ \E key \in Keys, value \in QcValues : QcSet(key, value)
  \/ QcClear
  \/ QcGetStats
  \/ \E prefix \in Prefixes : InvalidateByPrefix(prefix)
  \/ Tick

SpecQC == InitQC /\ [][NextQC]_vars

InitAsync == layer = "async" /\ InitQuery

NextAsync ==
  \/ \E t \in TaskIds, key \in Keys, sync \in { "pending" } \cup Errors :
        GetOrCompute(t, key, sync)
  \/ \E t \in TaskIds, outcome \in Outcomes : Resume(t, outcome)
  \/ \E key \in Keys : QcGet(key)
  \/ \E prefix \in Prefixes : InvalidateByPrefix(prefix)
  \/ Tick

SpecAsync == InitAsync /\ [][NextAsync]_vars

\* StatementCache constructor: an inner LRUCache without maxAge or onEvict
InitSC ==
  /\ layer = "sc"
  /\ maxAge = 0
  /\ ttlMs = 0
  /\ refreshOnAccess = FALSE
  /\ InitCommon

NextSC ==
  \/ \E sql \in SqlTexts, ok \in BOOLEAN : Prepare(sql, ok)
  \/ ScClear
  \/ ScGetStats

SpecSC == InitSC /\ [][NextSC]_vars

\* maxSize as a caller may pass it to a constructor
SizeOptions == { 0 - 1, 0 } \cup (1..MaxSize)

\* new LRUCache(options), new QueryCache(options) or new StatementCache(db,
\* options); the latter two hand options.maxSize to the LRUCache constructor.
\* When it throws there is no instance: layer is "none" and no method runs.
InitNew ==
  \E kind \in { "lru", "qc", "sc" }, requested \in SizeOptions :
    LET r == LRUCache_new([ maxSize |-> requested ]) IN
    /\ layer = IF r.status = "returned" THEN kind ELSE None
    /\ maxSize = requested
    /\ maxAge \in IF kind = "lru" THEN AgeChoices ELSE { 0 }
    /\ ttlMs \in IF kind = "qc" THEN AgeChoices ELSE { 0 }
    /\ refreshOnAccess \in IF kind = "qc" THEN BOOLEAN ELSE { FALSE }
    /\ cache = << >>
    /\ hits = 0
    /\ misses = 0
    /\ now = 0
    /\ qcHits = 0
    /\ qcMisses = 0
    /\ expirations = 0
    /\ evictions = 0
    /\ tasks = [ t \in TaskIds |-> NoKey ]
    /\ scHits = 0
    /\ scMisses = 0
    /\ prepareCalls = 0
    /\ lastCall = [ Call("new", NoKey, kind, r.error, << >>)
                     EXCEPT !.status = r.status ]
    /\ recency = << >>
    /\ NewPipeline

NextNew == NextLRU \/ NextQC \/ NextSC

SpecNew == InitNew /\ [][NextNew]_vars

\* generateCacheKey is a module-level function: it needs no cache instance.
InitKey ==
  /\ layer = "key"
  /\ maxAge = 0
  /\ ttlMs = 0
  /\ refreshOnAccess = FALSE
  /\ InitCommon

NextKey ==
  \E queryName \in QueryNames, params \in ParamObjects :
     GenerateCacheKey(queryName, params)

SpecKey == InitKey /\ [][NextKey]_vars

\* new LRUCache({ maxSize, maxAge, onEvict }) with a callback that holds a
\* reference to the cache
InitEvict ==
  /\ layer = "evict"
  /\ maxAge \in AgeChoices
  /\ ttlMs = 0
  /\ refreshOnAccess = FALSE
  /\ InitCommon

NextEvict ==
  \/ \E key \in Keys, value \in Values, callback \in Callbacks :
        SetReentrant(key, value, callback)
  \/ \E key \in Keys : Delete(key)

SpecEvict == InitEvict /\ [][NextEvict]_vars

InitPipeline ==
  /\ layer = "pipeline"
  /\ maxAge = 0
  /\ ttlMs = 0
  /\ refreshOnAccess = FALSE
  /\ InitCommon

NextPipeline ==
  \/ \E c \in CallIds, throws \in BOOLEAN : Execute(c, throws)
  \/ \E c \in CallIds, fulfilled \in BOOLEAN, progress \in BOOLEAN,
        throws \in BOOLEAN : Settle(c, fulfilled, progress, throws)
  \/ Cancel
  \/ Reset

SpecPipeline == InitPipeline /\ [][NextPipeline]_vars

Init == InitLRU \/ InitQC \/ InitAsync \/ InitSC

Next == NextLRU \/ NextQC \/ NextAsync \/ NextSC

Spec == Init /\ [][Next]_vars

\* -------------------------------------------------------------- properties
\* key starts with prefix, said without String.prototype.startsWith
IsPrefixOf(prefix, key) ==
  /\ Len(prefix) <= Len(key)
  /\ \A i \in 1..Len(prefix) : key[i] = prefix[i]

\* the entry stored under key
EntryOf(c, key) == c[IndexOf(c, key)]

\* C1: the number of stored entries never exceeds the capacity the cache was
\* constructed with, after every operation of LRUCache, QueryCache and
\* StatementCache.
C1_SizeWithinCapacity == Len(cache) <= maxSize

\* a set of a new key into a full cache has just run
C1_Witness ==
  /\ lastCall.op = "set"
  /\ lastCall.full
  /\ ~lastCall.stored
  /\ Len(cache) = maxSize

\* C2: a set of a key that is not stored, on a cache holding maxSize entries,
\* removes exactly the stored key whose last touch (a set, or a get that found
\* it) is the oldest; every other stored key stays and the new key is stored.
C2_EvictsLeastRecentlyTouched ==
  [][ ( /\ lastCall'.op = "set"
        /\ ~MapHas(cache, lastCall'.key)
        /\ Len(cache) = maxSize )
      => /\ KeysOf(cache') = (KeysOf(cache) \ { Head(recency) }) \cup { lastCall'.key }
         /\ Len(cache') = Len(cache)
         /\ \A k \in KeysOf(cache) \ { Head(recency) } :
               EntryOf(cache', k) = EntryOf(cache, k) ]_vars

\* an evicting set on a two-entry cache after a get that found its key
C2_Witness ==
  /\ layer = "lru"
  /\ lastCall.op = "set"
  /\ lastCall.full
  /\ ~lastCall.stored
  /\ maxSize = 2
  /\ hits = 1

\* C9: a set of a key that is already stored replaces its value, makes it the
\* most recently used, leaves every other entry and their order as they were,
\* keeps the size and calls onEvict not at all, also on a full cache.
C9_UpdateInPlace ==
  [][ ( /\ layer = "lru"
        /\ lastCall'.op = "set"
        /\ MapHas(cache, lastCall'.key) )
      => /\ Len(cache') = Len(cache)
         /\ cache'[Len(cache')].key = lastCall'.key
         /\ cache'[Len(cache')].value = lastCall'.val
         /\ MapDelete(cache', lastCall'.key) = MapDelete(cache, lastCall'.key)
         /\ lastCall'.onEvict = << >> ]_vars

\* a set of a stored key on a full two-entry cache
C9_Witness ==
  /\ layer = "lru"
  /\ lastCall.op = "set"
  /\ lastCall.stored
  /\ lastCall.full
  /\ maxSize = 2
  /\ lastCall.onEvict = << >>

\* C10: onEvict is called exactly once, with the evicted key and its value, by
\* a set that inserts a new key into a full cache, and by nothing else: not by
\* delete, clear, cleanExpired, nor by a get or has that drops an aged-out
\* entry.
C10_OnEvictOnlyOnCapacityEviction ==
  [][ layer = "lru" =>
      IF /\ lastCall'.op = "set"
         /\ ~MapHas(cache, lastCall'.key)
         /\ Len(cache) = maxSize
      THEN \E k \in KeysOf(cache) :
             /\ KeysOf(cache) \ KeysOf(cache') = { k }
             /\ lastCall'.onEvict = << << k, EntryOf(cache, k).value >> >>
      ELSE lastCall'.onEvict = << >> ]_vars

\* a set has just called onEvict once
C10_Witness ==
  /\ layer = "lru"
  /\ lastCall.op = "set"
  /\ Len(lastCall.onEvict) = 1


\* C3: with ttlMs > 0, QueryCache.get(k) returns the stored value exactly when
\* k is stored and now <= expiresAt; on a stored entry with now > expiresAt it
\* returns undefined, removes the entry (size one less), and adds one to misses
\* and to expirations while evictions stays.
C3_TtlExpiry ==
  [][ ( /\ layer = "qc"
        /\ ttlMs > 0
        /\ lastCall'.op = "get" )
      => LET k == lastCall'.key IN
         IF MapHas(cache, k)
         THEN IF now <= EntryOf(cache, k).value.expiresAt
              THEN /\ lastCall'.ret = EntryOf(cache, k).value.value
                   /\ MapHas(cache', k)
              ELSE /\ lastCall'.ret = Undefined
                   /\ ~MapHas(cache', k)
                   /\ Len(cache') = Len(cache) - 1
                   /\ qcMisses' = qcMisses + 1
                   /\ expirations' = expirations + 1
                   /\ evictions' = evictions
         ELSE /\ lastCall'.ret = Undefined
              /\ cache' = cache ]_vars

\* a get has just found its key past its expiresAt and removed it
C3_Witness ==
  /\ layer = "qc"
  /\ ttlMs > 0
  /\ lastCall.op = "get"
  /\ lastCall.stored
  /\ ~MapHas(cache, lastCall.key)
  /\ expirations = 1

\* C4: when computeFn throws or its promise rejects, getOrCompute rejects with
\* that error and writes no entry; the next getOrCompute of the key, nothing
\* being stored for it, invokes its computeFn.
C4_FailureIsNotCached ==
  [][ /\ ( lastCall'.op = "resume" /\ lastCall'.status = "rejected" )
         => /\ lastCall'.ret = lastCall'.val
            /\ lastCall'.val \in Errors
            /\ cache' = cache
      /\ ( lastCall'.op = "getOrCompute" /\ lastCall'.status = "rejected" )
         => /\ lastCall'.ret = lastCall'.val
            /\ lastCall'.val \in Errors
            /\ \A i \in 1..Len(cache') : \E j \in 1..Len(cache) :
                  /\ cache'[i].key = cache[j].key
                  /\ cache'[i].value.value = cache[j].value.value
      /\ ( /\ lastCall'.op = "getOrCompute"
           /\ lastCall'.retry
           /\ ~MapHas(cache, lastCall'.key) )
         => lastCall'.invoked ]_vars

\* a getOrCompute right after a rejected one of the same key has invoked its
\* computeFn
C4_Witness ==
  /\ lastCall.op = "getOrCompute"
  /\ lastCall.retry
  /\ lastCall.invoked
  /\ ~lastCall.stored

\* C5: once invalidateByPrefix(p) has returned, no key starting with p is
\* readable until an operation started afterwards stores it; in particular
\* the continuation of a getOrCompute that was suspended while the
\* invalidation ran stores nothing under such a key.
C5_NoStaleStoreAfterInvalidate ==
  [][ ( /\ lastCall.op = "invalidateByPrefix"
        /\ lastCall'.op = "resume" )
      => \A k \in Keys : IsPrefixOf(lastCall.key, k) => ~MapHas(cache', k) ]_vars

\* C6: invalidateByPrefix(p) removes exactly the stored keys that start with
\* p; every other entry keeps its value, expiresAt and place in the recency
\* order, and hits, misses, expirations and evictions stay as they were.
C6_InvalidateExactlyPrefix ==
  [][ lastCall'.op = "invalidateByPrefix"
      => /\ cache' = SelectSeq(cache, LAMBDA e : ~IsPrefixOf(lastCall'.key, e.key))
         /\ UNCHANGED << qcHits, qcMisses, expirations, evictions >> ]_vars

\* invalidateByPrefix("p") has just removed one of two entries and kept "qp"
C6_Witness ==
  /\ layer = "qc"
  /\ lastCall.op = "invalidateByPrefix"
  /\ lastCall.key = <<"p">>
  /\ lastCall.full
  /\ maxSize = 2
  /\ KeysOf(cache) = { <<"q", "p">> }

\* C7: concurrent getOrCompute calls that miss each invoke their own computeFn
\* and each return their own computed value, and when a computation completes
\* the cache holds its value under the key, so the one completed last stays.
C7_LastCompletedWins ==
  /\ ( lastCall.op = "resume" /\ lastCall.status = "resolved" )
     => /\ lastCall.ret = lastCall.val
        /\ MapHas(cache, lastCall.key)
        /\ cache[Len(cache)].key = lastCall.key
        /\ cache[Len(cache)].value.value = lastCall.val
  /\ ( lastCall.op = "getOrCompute" /\ lastCall.missed ) => lastCall.invoked

\* two calls missed, and the second computation to complete has found the
\* key stored by the first
C7_Witness ==
  /\ lastCall.op = "resume"
  /\ lastCall.status = "resolved"
  /\ lastCall.stored
  /\ lastCall.val = "v2"
  /\ qcMisses = 2
  /\ qcHits = 0

\* C8: getOrCompute invokes computeFn only when its lookup recorded a miss;
\* with a valid entry stored, whatever its value, computeFn is not invoked.
C8_ComputeOnlyOnMiss ==
  ( lastCall.op = "getOrCompute" /\ lastCall.invoked ) => lastCall.missed

\* the entry's age is within maxAge at the current time
Fresh(entry) == now - entry.timestamp <= maxAge

\* C12: with maxAge > 0, get and has report a stored entry as present exactly
\* when now minus the time of its last set is <= maxAge; past that the access
\* removes the entry, get counts one miss and returns undefined, has returns
\* false, and onEvict is not called.
C12_MaxAgeExpiry ==
  [][ ( /\ layer = "lru"
        /\ maxAge > 0
        /\ lastCall'.op \in { "get", "has" }
        /\ MapHas(cache, lastCall'.key) )
      => LET k == lastCall'.key
             e == EntryOf(cache, k)
         IN IF lastCall'.op = "get"
            THEN IF Fresh(e)
                 THEN /\ lastCall'.ret = e.value
                      /\ MapHas(cache', k)
                      /\ hits' = hits + 1 /\ misses' = misses
                 ELSE /\ lastCall'.ret = Undefined
                      /\ cache' = MapDelete(cache, k)
                      /\ misses' = misses + 1 /\ hits' = hits
                      /\ lastCall'.onEvict = << >>
            ELSE IF Fresh(e)
                 THEN /\ lastCall'.ret = TRUE
                      /\ MapHas(cache', k)
                 ELSE /\ lastCall'.ret = FALSE
                      /\ cache' = MapDelete(cache, k)
                      /\ lastCall'.onEvict = << >> ]_vars

\* a get has just found its key aged out and removed it
C12_Witness ==
  /\ layer = "lru"
  /\ maxAge > 0
  /\ lastCall.op = "get"
  /\ lastCall.stored
  /\ ~MapHas(cache, lastCall.key)
  /\ misses = 1

\* C13: has(k) never changes the relative order of the stored entries nor hits
\* or misses; so a has(k) that answers true right before a set that evicts
\* does not keep k, the least recently touched key, from being the victim.
C13_HasDoesNotTouch ==
  [][ /\ ( layer = "lru" /\ lastCall'.op = "has" )
         => /\ cache' \in { cache, MapDelete(cache, lastCall'.key) }
            /\ hits' = hits /\ misses' = misses
      /\ ( /\ layer = "lru"
           /\ lastCall.op = "has"
           /\ lastCall.ret = TRUE
           /\ lastCall'.op = "set"
           /\ ~MapHas(cache, lastCall'.key)
           /\ Len(cache) = maxSize
           /\ Head(recency) = lastCall.key )
         => ~MapHas(cache', lastCall.key) ]_vars

\* has has just answered true for the oldest key of a full two-entry cache
C13_Witness ==
  /\ layer = "lru"
  /\ lastCall.op = "has"
  /\ lastCall.ret = TRUE
  /\ Len(cache) = 2
  /\ cache[1].key = lastCall.key

\* C14: hits and misses never decrease except that clear sets both to 0; a get
\* adds exactly 1 to exactly one of them (hits when the key is stored and not
\* aged out); every other operation leaves both unchanged.
C14_HitMissCounters ==
  [][ layer = "lru" =>
      IF lastCall'.op = "clear"
      THEN hits' = 0 /\ misses' = 0
      ELSE IF lastCall'.op = "get"
      THEN IF /\ MapHas(cache, lastCall'.key)
              /\ ( maxAge = 0 \/ Fresh(EntryOf(cache, lastCall'.key)) )
           THEN hits' = hits + 1 /\ misses' = misses
           ELSE hits' = hits /\ misses' = misses + 1
      ELSE hits' = hits /\ misses' = misses ]_vars

\* a get has just counted a hit
C14_Witness ==
  /\ layer = "lru"
  /\ lastCall.op = "get"
  /\ lastCall.stored
  /\ hits = 1
  /\ misses = 0

\* C16: cleanExpired with maxAge configured removes exactly the entries whose
\* age exceeds maxAge and returns how many; the others keep value and order;
\* hits and misses stay and onEvict is not called.  Without maxAge it returns
\* 0 and changes nothing.
C16_CleanExpired ==
  [][ ( layer = "lru" /\ lastCall'.op = "cleanExpired" )
      => /\ IF maxAge > 0
            THEN /\ cache' = SelectSeq(cache, Fresh)
                 /\ lastCall'.ret = Len(cache) - Len(cache')
            ELSE /\ cache' = cache
                 /\ lastCall'.ret = 0
         /\ hits' = hits /\ misses' = misses
         /\ lastCall'.onEvict = << >> ]_vars

\* cleanExpired has just removed one of two entries
C16_Witness ==
  /\ layer = "lru"
  /\ maxAge > 0
  /\ lastCall.op = "cleanExpired"
  /\ lastCall.ret = 1
  /\ Len(cache) = 1

\* C17: each stored key occurs once in the iteration order, which is the order
\* of last touches, oldest first; forEach hands the entries to its callback in
\* that order and leaves entries, order and counters as they were.
C17_IterationIsRecencyOrder ==
  [][ layer = "lru" =>
      /\ KeySeq(cache') = recency'
      /\ \A i, j \in 1..Len(cache') : cache'[i].key = cache'[j].key => i = j
      /\ lastCall'.op = "forEach"
         => /\ lastCall'.ret = [ i \in 1..Len(cache) |-> << cache[i].value, recency[i] >> ]
            /\ cache' = cache /\ hits' = hits /\ misses' = misses ]_vars

\* forEach has just visited two entries, a get having found a key before
C17_Witness ==
  /\ layer = "lru"
  /\ lastCall.op = "forEach"
  /\ Len(lastCall.ret) = 2
  /\ hits = 1

\* C11: QueryCache's evictions counts the entries removed for capacity since
\* the last clear: it grows by exactly 1 on each set, or write of a completed
\* getOrCompute, that inserts a new key into a full cache, clear sets it to 0,
\* every other operation leaves it, and getStats reports it.
C11_EvictionsCounter ==
  [][ QueryLayer =>
      /\ evictions' =
           IF lastCall'.op = "clear" THEN 0
           ELSE IF /\ \/ lastCall'.op = "set"
                      \/ lastCall'.op = "resume" /\ lastCall'.status = "resolved"
                   /\ ~MapHas(cache, lastCall'.key)
                   /\ Len(cache) = maxSize
           THEN evictions + 1
           ELSE evictions
      /\ lastCall'.op = "getStats" => lastCall'.ret.evictions = evictions ]_vars

\* a QueryCache.set has just evicted an entry and counted it
C11_Witness ==
  /\ layer = "qc"
  /\ lastCall.op = "set"
  /\ Len(lastCall.onEvict) = 1
  /\ evictions = 1

\* C15: after clear the cache is empty, every key absent, and the counters of
\* its layer are 0: hits and misses of LRUCache and StatementCache; hits,
\* misses, expirations and evictions of QueryCache.
C15_ClearResets ==
  lastCall.op = "clear"
  => /\ cache = << >>
     /\ hits = 0 /\ misses = 0
     /\ layer = "qc" => qcHits = 0 /\ qcMisses = 0 /\ expirations = 0 /\ evictions = 0
     /\ layer = "sc" => scHits = 0 /\ scMisses = 0

\* QueryCache.clear has just emptied a full cache
C15_Witness ==
  /\ layer = "qc"
  /\ lastCall.op = "clear"
  /\ lastCall.full

\* C18: with ttlMs > 0, a get that returns a value sets the entry's expiresAt
\* to now + ttlMs when refreshOnAccess is enabled and leaves it as it was when
\* disabled, in which case no value is returned later than ttlMs after its
\* last set; no get changes the expiresAt of another entry.
C18_RefreshOnAccess ==
  [][ ( /\ layer = "qc"
        /\ ttlMs > 0
        /\ lastCall'.op = "get" )
      => LET k == lastCall'.key IN
         /\ ( MapHas(cache, k) /\ now <= EntryOf(cache, k).value.expiresAt )
            => /\ MapHas(cache', k)
               /\ EntryOf(cache', k).value.expiresAt =
                    IF refreshOnAccess THEN now + ttlMs
                    ELSE EntryOf(cache, k).value.expiresAt
               /\ ~refreshOnAccess => now <= EntryOf(cache, k).timestamp + ttlMs
         /\ MapDelete(cache', k) = MapDelete(cache, k) ]_vars

\* a get has just returned a value later than ttlMs after it was set
C18_Witness ==
  /\ layer = "qc"
  /\ ttlMs > 0
  /\ refreshOnAccess
  /\ lastCall.op = "get"
  /\ MapHas(cache, lastCall.key)
  /\ lastCall.ret = "v1"
  /\ now - EntryOf(cache, lastCall.key).timestamp > ttlMs

\* C19: with ttlMs = 0 (QueryCache) or maxAge absent (LRUCache) time removes or
\* hides nothing: get returns the value of every stored key and has finds it,
\* however late; expirations stays 0 and cleanExpired returns 0.
C19_NoExpiryWhenUnconfigured ==
  [][ /\ ( /\ layer = "lru" /\ maxAge = 0
           /\ lastCall'.op = "get" /\ MapHas(cache, lastCall'.key) )
         => /\ lastCall'.ret = EntryOf(cache, lastCall'.key).value
            /\ MapHas(cache', lastCall'.key)
      /\ ( /\ layer = "lru" /\ maxAge = 0
           /\ lastCall'.op = "has" /\ MapHas(cache, lastCall'.key) )
         => /\ lastCall'.ret = TRUE
            /\ cache' = cache
      /\ ( layer = "lru" /\ maxAge = 0 /\ lastCall'.op = "cleanExpired" )
         => /\ lastCall'.ret = 0
            /\ cache' = cache
      /\ ( /\ QueryLayer /\ ttlMs = 0
           /\ lastCall'.op = "get" /\ MapHas(cache, lastCall'.key) )
         => /\ lastCall'.ret = EntryOf(cache, lastCall'.key).value.value
            /\ MapHas(cache', lastCall'.key)
      /\ ( QueryLayer /\ ttlMs = 0 ) => expirations' = 0 ]_vars

\* without maxAge, a get has just returned a value set two ticks earlier
C19_Witness ==
  /\ layer = "lru"
  /\ maxAge = 0
  /\ lastCall.op = "get"
  /\ MapHas(cache, lastCall.key)
  /\ hits = 1
  /\ now - EntryOf(cache, lastCall.key).timestamp = MaxTime

\* C20: the passing of time alone changes no cache state: entries, size and
\* all counters stay as they are while the clock advances, and the size that
\* getStats reports counts entries already past their expiry.
C20_TimeAloneChangesNothing ==
  [][ /\ lastCall'.op = "tick"
         => /\ now' > now
            /\ UNCHANGED << cache, hits, misses, qcHits, qcMisses, expirations,
                            evictions >>
      /\ lastCall'.op = "getStats"
         => /\ lastCall'.ret.size = Len(cache)
            /\ cache' = cache ]_vars

\* the clock has just advanced past the maxAge of a stored entry, which stays
C20_Witness ==
  /\ layer = "lru"
  /\ maxAge > 0
  /\ lastCall.op = "tick"
  /\ \E i \in 1..Len(cache) : now - cache[i].timestamp > maxAge

\* C21: constructing an LRUCache, QueryCache or StatementCache with a capacity
\* below 1 throws, so no instance exists and no entry is ever stored; with a
\* capacity of at least 1 the instance exists.
C21_ConstructorRejectsCapacityBelowOne ==
  /\ layer = None <=> maxSize < 1
  /\ maxSize < 1 => cache = << >> /\ lastCall.op = "new" /\ lastCall.status = "threw"
  /\ ( lastCall.op = "new" /\ maxSize >= 1 ) => lastCall.status = "returned"

\* new StatementCache(db, { maxSize: 0 }) has just thrown
C21_Witness ==
  /\ lastCall.op = "new"
  /\ lastCall.val = "sc"
  /\ lastCall.status = "threw"
  /\ lastCall.ret = "maxSize must be at least 1"
  /\ maxSize = 0

\* C22: getStats on each of the three layers reads only: entries, their
\* order and expiry data, every counter and the clock stay as they were, and a
\* getStats right after a getStats returns an equal result.
C22_GetStatsReadOnly ==
  [][ lastCall'.op = "getStats"
      => /\ UNCHANGED << cache, recency, hits, misses, qcHits, qcMisses,
                         expirations, evictions, scHits, scMisses,
                         prepareCalls, now, tasks >>
         /\ lastCall.op = "getStats" => lastCall'.ret = lastCall.ret ]_vars

\* getStats has just reported on a full LRUCache that counted a hit
C22_Witness ==
  /\ layer = "lru"
  /\ lastCall.op = "getStats"
  /\ lastCall.ret.size = 2
  /\ lastCall.ret.hits = 1

\* the hits and misses counters of the layer the caller talks to
OwnHits == IF QueryLayer THEN qcHits ELSE IF layer = "sc" THEN scHits ELSE hits

OwnMisses ==
  IF QueryLayer THEN qcMisses ELSE IF layer = "sc" THEN scMisses ELSE misses

\* C23: getStats reports hits and misses of its own layer and hitRate =
\* hits / (hits + misses), that is hitRate * (hits + misses) = hits, and
\* hitRate = 0 when there were no accesses; 4 hits and 1 miss give 8/10.
C23_HitRate ==
  /\ lastCall.op = "getStats"
     => LET rate == lastCall.ret.hitRate IN
        /\ lastCall.ret.hits = OwnHits
        /\ lastCall.ret.misses = OwnMisses
        /\ rate[2] > 0
        /\ rate[1] * (OwnHits + OwnMisses) = OwnHits * rate[2]
        /\ OwnHits + OwnMisses = 0 => rate[1] = 0
  /\ hitRate(4, 4 + 1)[1] * 10 = 8 * hitRate(4, 4 + 1)[2]

\* QueryCache.getStats after one hit and one miss of its own, the inner cache
\* having counted two hits
C23_Witness ==
  /\ layer = "qc"
  /\ lastCall.op = "getStats"
  /\ lastCall.ret.hitRate = << 1, 2 >>
  /\ hits = 2
  /\ misses = 0

RECURSIVE Words(_)
\* the maximal runs of non-whitespace characters of a text, in order
Words(s) ==
  IF s = << >> THEN << >>
  ELSE IF Head(s) \in Whitespace THEN Words(Tail(s))
  ELSE IF Len(s) > 1 /\ s[2] \notin Whitespace
  THEN LET rest == Words(Tail(s))
       IN << << Head(s) >> \o Head(rest) >> \o Tail(rest)
  ELSE << << Head(s) >> >> \o Words(Tail(s))

\* C24: when two SQL texts differ only in their whitespace runs or in leading
\* or trailing whitespace, a prepare of one right after a prepare of the other
\* returns the same handle, does not call the store's prepare and counts a hit.
C24_WhitespaceInsensitive ==
  [][ ( /\ lastCall.op = "prepare"
        /\ lastCall.status = "returned"
        /\ lastCall'.op = "prepare"
        /\ Words(lastCall'.val) = Words(lastCall.val) )
      => /\ lastCall'.status = "returned"
         /\ lastCall'.ret = lastCall.ret
         /\ prepareCalls' = prepareCalls
         /\ scHits' = scHits + 1
         /\ scMisses' = scMisses ]_vars

\* a text that is not in normal form has just been served from the cache,
\* the store having prepared once
C24_Witness ==
  /\ lastCall.op = "prepare"
  /\ lastCall.status = "returned"
  /\ lastCall.stored
  /\ lastCall.val # lastCall.key
  /\ scHits = 1
  /\ prepareCalls = 1

\* C25: when the store's prepare throws inside StatementCache.prepare, the
\* call throws, stores nothing for the normalized text and leaves the size,
\* and a prepare of the same text right after calls the store's prepare again.
C25_FailedPrepareNotCached ==
  [][ /\ ( lastCall'.op = "prepare" /\ lastCall'.status = "threw" )
         => /\ cache' = cache
            /\ ~MapHas(cache', lastCall'.key)
            /\ prepareCalls' = prepareCalls + 1
      /\ ( /\ lastCall.op = "prepare"
           /\ lastCall.status = "threw"
           /\ lastCall'.op = "prepare"
           /\ lastCall'.key = lastCall.key )
         => prepareCalls' = prepareCalls + 1 ]_vars

\* both prepare calls so far went to the store and only the second stored
C25_Witness ==
  /\ lastCall.op = "prepare"
  /\ lastCall.status = "returned"
  /\ ~lastCall.stored
  /\ prepareCalls = 2
  /\ scHits = 0
  /\ Len(cache) = 1
  /\ maxSize = 2

\* C26: a StatementCache.prepare whose preparation fails counts as neither a
\* hit nor a miss: hits and misses are after the call what they were before.
C26_FailedPrepareNotCounted ==
  [][ ( lastCall'.op = "prepare" /\ lastCall'.status = "threw" )
      => scHits' = scHits /\ scMisses' = scMisses ]_vars

\* a whitespace character as it stands inside a string literal
Literal(c) == CASE c = " " -> "SP" [] c = "\n" -> "NL" [] OTHER -> "TAB"

RECURSIVE Protect(_, _)
\* the text with the whitespace inside '...' literals marked as significant
Protect(s, quoted) ==
  IF s = << >> THEN << >>
  ELSE IF Head(s) = "'" THEN << "'" >> \o Protect(Tail(s), ~quoted)
  ELSE IF quoted /\ Head(s) \in Whitespace
  THEN << Literal(Head(s)) >> \o Protect(Tail(s), quoted)
  ELSE << Head(s) >> \o Protect(Tail(s), quoted)

\* the same statement up to whitespace outside string literals
SameStatement(a, b) == Words(Protect(a, FALSE)) = Words(Protect(b, FALSE))

\* C27: StatementCache.prepare serves one handle to two texts only when they
\* are the same statement up to insignificant whitespace, the whitespace
\* inside a quoted string literal being significant.
C27_NoCollision ==
  [][ ( /\ lastCall.op = "prepare"
        /\ lastCall.status = "returned"
        /\ lastCall'.op = "prepare"
        /\ lastCall'.status = "returned"
        /\ lastCall'.ret = lastCall.ret )
      => SameStatement(lastCall.val, lastCall'.val) ]_vars

\* C28: a StatementCache holding maxSize statements that prepares a further
\* one drops the statement least recently prepared, by hit or by miss; every
\* prepare of a statement not held calls the store's prepare once, and a
\* statement held is served as stored without calling the store.
C28_StatementEviction ==
  [][ ( layer = "sc" /\ lastCall'.op = "prepare" )
      => LET k == lastCall'.key IN
         /\ ( /\ lastCall'.status = "returned"
              /\ ~MapHas(cache, k)
              /\ Len(cache) = maxSize )
            => KeysOf(cache') = (KeysOf(cache) \ { Head(recency) }) \cup { k }
         /\ prepareCalls' = prepareCalls + IF MapHas(cache, k) THEN 0 ELSE 1
         /\ MapHas(cache, k)
            => /\ lastCall'.status = "returned"
               /\ lastCall'.ret = EntryOf(cache, k).value
               /\ KeysOf(cache') = KeysOf(cache) ]_vars

\* after a hit, a third statement has just been prepared into a full cache of
\* two
C28_Witness ==
  /\ layer = "sc"
  /\ lastCall.op = "prepare"
  /\ lastCall.status = "returned"
  /\ ~lastCall.stored
  /\ lastCall.full
  /\ maxSize = 2
  /\ scHits = 1
  /\ prepareCalls = 3

\* the properties of a params object, whatever their insertion order
PropertySet(params) == { params[i] : i \in 1..Len(params) }

\* C29: generateCacheKey returns the same key for every insertion order of the
\* same set of named parameters.
C29_KeyIgnoresParameterOrder ==
  lastCall.op = "generateCacheKey"
  => \A other \in ParamObjects :
       PropertySet(other) = PropertySet(lastCall.val.params)
       => generateCacheKey(lastCall.val.queryName, other) = lastCall.ret

\* generateCacheKey("q", { b: "1", a: 1 }) has just returned q:{"a":1,"b":"1"}
C29_Witness ==
  /\ lastCall.op = "generateCacheKey"
  /\ lastCall.val.queryName = <<"q">>
  /\ ObjectKeys(lastCall.val.params) = << <<"b">>, <<"a">> >>
  /\ lastCall.ret = << "q", ":", "{", "\"", "a", "\"", ":", "1", ",",
                       "\"", "b", "\"", ":", "\"", "1", "\"", "}" >>

\* C30: generateCacheKey is injective: two calls that differ in the query
\* name, in the set of parameter names or in the value of a parameter return
\* different keys.
C30_KeyInjective ==
  lastCall.op = "generateCacheKey"
  => \A queryName \in QueryNames, params \in ParamObjects :
       generateCacheKey(queryName, params) = lastCall.ret
       => /\ queryName = lastCall.val.queryName
          /\ PropertySet(params) = PropertySet(lastCall.val.params)

\* C34: on a cache with maxAge configured, forEach hands the visitor no entry
\* whose age exceeds maxAge (an entry has would report as absent).
C34_ForEachVisitsOnlyLive ==
  ( /\ layer = "lru"
    /\ lastCall.op = "forEach" )
  => \A i \in 1..Len(lastCall.ret) :
        ~isExpired(EntryOf(cache, lastCall.ret[i][2]))

\* C35: a get that finds its key leaves the entry's value and timestamp as they
\* were, leaves every other entry and their order as they were, makes the key
\* the most recently used, adds one to hits and leaves misses.
C35_GetKeepsAge ==
  [][ ( /\ layer = "lru"
        /\ lastCall'.op = "get"
        /\ MapHas(cache, lastCall'.key)
        /\ ~isExpired(EntryOf(cache, lastCall'.key)) )
      => /\ EntryOf(cache', lastCall'.key) = EntryOf(cache, lastCall'.key)
         /\ cache'[Len(cache')].key = lastCall'.key
         /\ MapDelete(cache', lastCall'.key) = MapDelete(cache, lastCall'.key)
         /\ hits' = hits + 1
         /\ misses' = misses ]_vars

\* a get has just found an entry that was set at an earlier time, on a cache
\* with maxAge configured
C35_Witness ==
  /\ layer = "lru"
  /\ lastCall.op = "get"
  /\ hits = 1
  /\ maxAge > 0
  /\ MapHas(cache, lastCall.key)
  /\ EntryOf(cache, lastCall.key).timestamp < now

\* C36: in a QueryCache an entry past its expiresAt keeps its capacity slot
\* until a get finds it: a set of a key that is not stored, on a cache holding
\* maxSize entries, removes the least recently used entry, adds one to
\* evictions and leaves expirations, whichever entries are past their
\* expiresAt; expirations grows only by a get that removes the entry it looked
\* up.
C36_ExpiredEntriesOccupyCapacity ==
  [][ layer = "qc" =>
      /\ ( /\ lastCall'.op = "set"
           /\ ~MapHas(cache, lastCall'.key)
           /\ Len(cache) = maxSize )
         => /\ KeysOf(cache') = (KeysOf(cache) \ { Head(recency) }) \cup { lastCall'.key }
            /\ Len(cache') = Len(cache)
            /\ evictions' = evictions + 1
            /\ expirations' = expirations
      /\ expirations' > expirations
         => /\ lastCall'.op = "get"
            /\ expirations' = expirations + 1
            /\ MapHas(cache, lastCall'.key)
            /\ ~MapHas(cache', lastCall'.key) ]_vars

\* a set has just evicted an entry that was past its expiresAt while another
\* entry past its expiresAt stays stored, and no expiration was counted
C36_Witness ==
  /\ layer = "qc"
  /\ lastCall.op = "set"
  /\ lastCall.full
  /\ ~lastCall.stored
  /\ Len(lastCall.onEvict) = 1
  /\ ttlExpired(lastCall.onEvict[1][2])
  /\ \E i \in 1..Len(cache) : ttlExpired(cache[i].value)
  /\ evictions = 1
  /\ expirations = 0

\* C37: in a QueryCache every get call and every getOrCompute call adds one to
\* exactly one of hits and misses, clear sets both to 0 and no other operation
\* changes either, so hits + misses is the number of lookups since the last
\* clear; and expirations never exceeds misses.
C37_LookupsCounted ==
  [][ QueryLayer =>
      /\ IF lastCall'.op \in { "get", "getOrCompute" }
         THEN \/ qcHits' = qcHits + 1 /\ qcMisses' = qcMisses
              \/ qcHits' = qcHits /\ qcMisses' = qcMisses + 1
         ELSE IF lastCall'.op = "clear"
         THEN qcHits' = 0 /\ qcMisses' = 0 /\ expirations' = 0
         ELSE qcHits' = qcHits /\ qcMisses' = qcMisses
      /\ expirations <= qcMisses
      /\ expirations' <= qcMisses' ]_vars

\* a get has just removed an entry past its expiresAt, after a lookup that hit
C37_Witness ==
  /\ layer = "qc"
  /\ lastCall.op = "get"
  /\ qcHits = 1
  /\ qcMisses = 1
  /\ expirations = 1

\* C33: when a set of a key that is not stored finds the cache at capacity and
\* calls onEvict, the callback sees the victim (the oldest entry) already
\* removed and the new key not yet stored, the size one less than before
\* (capacity - 1 on a cache that held capacity entries); when set returns the
\* new key is stored with the new value as the most recently used.
C33_EvictBeforeInsert ==
  [][ ( /\ layer = "evict"
        /\ lastCall'.op = "set"
        /\ ~MapHas(cache, lastCall'.key)
        /\ Len(cache) >= maxSize )
      => /\ Len(lastCall'.onEvict) >= 1
         /\ LET seen == lastCall'.onEvict[1] IN
            /\ seen.key = cache[1].key
            /\ ~seen.hasVictim
            /\ ~seen.hasKey
            /\ seen.size = Len(cache) - 1
            /\ Len(cache) = maxSize => seen.size = maxSize - 1
         /\ cache'[Len(cache')].key = lastCall'.key
         /\ cache'[Len(cache')].value = lastCall'.val ]_vars

\* a set has just evicted from a cache of two entries and its callback ran
C33_Witness ==
  /\ layer = "evict"
  /\ lastCall.op = "set"
  /\ lastCall.full
  /\ ~lastCall.stored
  /\ maxSize = 2
  /\ Len(lastCall.onEvict) = 1
  /\ lastCall.onEvict[1].size = 1

\* C39: when set returns, the cache holds at most maxSize entries, also when
\* the onEvict callback called set on the same cache.
C39_ReentrantCapacity ==
  ( /\ layer = "evict"
    /\ lastCall.op = "set" )
  => Len(cache) <= maxSize

\* execute() call c settled in the step just taken
Settled(c) ==
  /\ lastCall'.op \in { "execute", "settle" }
  /\ lastCall'.val = c
  /\ calls'[c].pc \in { "resolved", "rejected" }

\* C31: once cancel() has been called while an execute() call is in progress,
\* that call invokes no further stage handler, and when it settles it rejects
\* with the cancellation error and getState() is 'cancelled'.
C31_CancelStopsExecute ==
  [][ layer = "pipeline" =>
      \A c \in CallIds :
        ( /\ calls[c].pc = "awaiting"
          /\ calls[c].cancelSeen )
        => /\ calls'[c].invoked = calls[c].invoked
           /\ Settled(c) => /\ calls'[c].pc = "rejected"
                            /\ calls'[c].error = "cancelled"
                            /\ state' = "cancelled" ]_vars

\* C32: an execute() call invokes the stage handlers in the order of STAGES,
\* each at most once and one per resumption; when the handler of stage s
\* rejects or throws, the call rejects having invoked no later handler,
\* getFailedStage() is s and getState() is 'error'.
C32_StagesInOrder ==
  [][ layer = "pipeline" =>
      \A c \in CallIds :
        /\ calls'[c].invoked = SubSeq(STAGES, 1, Len(calls'[c].invoked))
        /\ calls[c].pc = "awaiting"
           => Len(calls'[c].invoked) <= Len(calls[c].invoked) + 1
        /\ ( Settled(c) /\ calls'[c].error = "handler" )
           => /\ calls'[c].pc = "rejected"
              /\ calls'[c].invoked = SubSeq(STAGES, 1, calls'[c].stage)
              /\ failedStage' = STAGES[calls'[c].stage]
              /\ state' = "error" ]_vars

\* C38: when an execute() call settles and no other execute() call is in
\* flight, getState() is 'completed', 'error' or 'cancelled', and it is
\* 'completed' exactly when the call resolved.
C38_SettledState ==
  [][ layer = "pipeline" =>
      \A c \in CallIds :
        ( /\ Settled(c)
          /\ \A d \in CallIds : calls'[d].pc # "awaiting" )
        => /\ state' \in { "completed", "error", "cancelled" }
           /\ state' = "completed" <=> calls'[c].pc = "resolved" ]_vars

====
